---------------------------- MODULE Spec2Model ----------------------------
(***************************************************************************)
(* Model of tools/remove_top_right_tag.py: a command-line tool that covers *)
(* a rectangle of an image with a colour sampled around the rectangle.     *)
(*                                                                         *)
(* Representation.                                                         *)
(*  - A Python float in [0,1] is a whole number of hundredths (Scale), so  *)
(*    0.74 is 74.  Every rectangle value the model draws has at most two   *)
(*    fractional digits.                                                   *)
(*  - A Python str that the code inspects character by character (the      *)
(*    --rect argument, an image format name) is a sequence of one-letter   *)
(*    strings.                                                             *)
(*  - An image is a record [format, mode, width, height, px]; px maps the  *)
(*    pixel <<x, y>> (0-based) to its tuple of channel values.             *)
(*  - A pixel box is the tuple <<left, top, right, bottom>>.               *)
(***************************************************************************)
EXTENDS Integers, Sequences, FiniteSets, TLC

VARIABLES
    pc,          \* position of the run
    argv,        \* the command line: [rect, quality, input, output]
    fields,      \* the text fields the --rect string was written from
    fs,          \* the file system: path -> file content, or NoFile
    fs0,         \* the file system when the process started
    status,      \* the exit status of the process, -1 while it runs
    opened,      \* the paths Image.open was called on
    written,     \* the paths written, in order
    parse_error, \* the ArgumentTypeError parse_normalized_rect raised, or "none"
    rect,        \* the NormalizedRect (the result of parsing)
    image,       \* the image Image.open returned
    image_rgb,   \* the RGB buffer that is painted and saved
    width,       \* image_rgb.size[0]
    height,      \* image_rgb.size[1]
    box,         \* the pixel box
    fault,       \* the library call of the sampler that raises, or "none"
    fill_color,  \* the colour compute_fill_color returned
    sampled,     \* the pixel coordinates compute_fill_color collected, by strip
    save_call    \* the arguments of image_rgb.save

vars == <<pc, argv, fields, fs, fs0, status, opened, written, parse_error, rect,
          image, image_rgb, width, height, box, fault, fill_color, sampled,
          save_call>>

(***************************************************************************)
(* Bounds of the model.                                                    *)
(***************************************************************************)
\* Largest width and height of an image with explicit pixels.
MaxSide == 3
\* Side of the large image used for the sampling geometry (margin above 1).
BigSide == 400
\* Largest number of comma-separated fields of a --rect string.
MaxFields == 5

(***************************************************************************)
(* Floats as hundredths.                                                   *)
(***************************************************************************)
Scale == 100

Min(a, b) == IF a <= b THEN a ELSE b
Max(a, b) == IF a >= b THEN a ELSE b

\* int(round(num / den)) for num >= 0, den > 0: Python 3 rounds a tie to the
\* even neighbour.
RoundHalfEven(num, den) ==
    LET q == num \div den
        r == num % den
    IN  IF 2 * r < den THEN q
        ELSE IF 2 * r > den THEN q + 1
        ELSE IF q % 2 = 0 THEN q ELSE q + 1

(***************************************************************************)
(* NormalizedRect.to_pixels                                                *)
(***************************************************************************)
NormalizedRect(l, t, r, b) == [left |-> l, top |-> t, right |-> r, bottom |-> b]

\* A rectangle whose pixel pairs are left in the order they were computed.
to_pixels_unordered(self, w, h) ==
    LET left_px   == Max(0, Min(w, RoundHalfEven(self.left * w, Scale)))
        top_px    == Max(0, Min(h, RoundHalfEven(self.top * h, Scale)))
        right_px  == Max(0, Min(w, RoundHalfEven(self.right * w, Scale)))
        bottom_px == Max(0, Min(h, RoundHalfEven(self.bottom * h, Scale)))
    IN  <<left_px, top_px, right_px, bottom_px>>

to_pixels(self, w, h) ==
    LET left_px   == Max(0, Min(w, RoundHalfEven(self.left * w, Scale)))
        top_px    == Max(0, Min(h, RoundHalfEven(self.top * h, Scale)))
        right_px  == Max(0, Min(w, RoundHalfEven(self.right * w, Scale)))
        bottom_px == Max(0, Min(h, RoundHalfEven(self.bottom * h, Scale)))
    IN  <<Min(left_px, right_px), Min(top_px, bottom_px),
          Max(left_px, right_px), Max(top_px, bottom_px)>>


(***************************************************************************)
(* parse_normalized_rect                                                   *)
(***************************************************************************)
Digits == <<"0", "1", "2", "3", "4", "5", "6", "7", "8", "9">>

IsDigit(c) == \E i \in 1..Len(Digits) : Digits[i] = c

DigitValue(c) == (CHOOSE i \in 1..Len(Digits) : Digits[i] = c) - 1

\* str.split(","): the pieces between the commas, empty pieces kept.
RECURSIVE Split(_)
Split(s) ==
    IF \A i \in 1..Len(s) : s[i] # ","
    THEN <<s>>
    ELSE LET i == CHOOSE k \in 1..Len(s) :
                     s[k] = "," /\ \A j \in 1..(k - 1) : s[j] # ","
         IN  <<SubSeq(s, 1, i - 1)>> \o Split(SubSeq(s, i + 1, Len(s)))

\* str.strip(): without the leading and trailing blanks.
Strip(p) ==
    LET solid == {i \in 1..Len(p) : p[i] # " "}
    IN  IF solid = {} THEN <<>>
        ELSE LET first == CHOOSE i \in solid : \A j \in solid : i <= j
                 last  == CHOOSE i \in solid : \A j \in solid : j <= i
             IN  SubSeq(p, first, last)

\* The number a string of digits denotes (0 for the empty string).
RECURSIVE DecimalValue(_)
DecimalValue(ds) ==
    IF ds = <<>> THEN 0
    ELSE 10 * DecimalValue(SubSeq(ds, 1, Len(ds) - 1)) + DigitValue(ds[Len(ds)])

\* float(p) over the letters the model writes (digits, sign, point, blank,
\* "x"): an optional sign, then digits with at most one point and at least
\* one digit.  The value is in hundredths; the strings the model draws have
\* at most two digits after the point.  ok = FALSE stands for ValueError.
ParseFloat(p) ==
    LET signed == p # <<>> /\ p[1] \in {"+", "-"}
        body   == IF signed THEN SubSeq(p, 2, Len(p)) ELSE p
        points == {i \in 1..Len(body) : body[i] = "."}
        wellformed ==
            /\ Cardinality(points) <= 1
            /\ \A i \in 1..Len(body) : i \in points \/ IsDigit(body[i])
            /\ \E i \in 1..Len(body) : IsDigit(body[i])
        point  == IF points = {} THEN Len(body) + 1 ELSE CHOOSE i \in points : TRUE
        whole  == SubSeq(body, 1, point - 1)
        frac   == SubSeq(body, point + 1, Len(body))
        cents  == IF Len(frac) = 0 THEN 0
                  ELSE IF Len(frac) = 1 THEN 10 * DigitValue(frac[1])
                  ELSE 10 * DigitValue(frac[1]) + DigitValue(frac[2])
        magnitude == Scale * DecimalValue(whole) + cents
    IN  IF ~wellformed THEN [ok |-> FALSE, value |-> 0]
        ELSE [ok |-> TRUE,
              value |-> IF signed /\ p[1] = "-" THEN 0 - magnitude ELSE magnitude]

\* What parse_normalized_rect returns when it raises ArgumentTypeError.
NoRect == NormalizedRect(-1, -1, -1, -1)

ParseError(kind) == [error |-> kind, rect |-> NoRect]

\* The check of the values against [0,1] with the lower bound exclusive.
InUnitIntervalStrict(value) == 0 < value /\ value <= Scale

\* 0.0 <= value <= 1.0
InUnitInterval(value) == 0 <= value /\ value <= Scale

parse_normalized_rect(rect_str) ==
    LET split  == Split(rect_str)
        parts  == [i \in 1..Len(split) |-> Strip(split[i])]
        floats == [i \in 1..Len(parts) |-> ParseFloat(parts[i])]
    IN  IF Len(parts) # 4 THEN ParseError("count")
        ELSE IF \E i \in 1..4 : ~floats[i].ok THEN ParseError("float")
        ELSE IF \E i \in 1..4 : ~InUnitInterval(floats[i].value)
             THEN ParseError("range")
        ELSE [error |-> "none",
              rect  |-> NormalizedRect(floats[1].value, floats[2].value,
                                       floats[3].value, floats[4].value)]

(***************************************************************************)
(* The text fields a --rect string is written from.  Each names its        *)
(* letters, whether Python's float() accepts it and, if so, its value in   *)
(* hundredths.                                                             *)
(***************************************************************************)
FieldNames == {"0", "1", " .5 ", "0.25", "0.75", "1.01", "-0.5", "x", ""}

Field(name) ==
    CASE name = "0"    -> [letters |-> <<"0">>, numeric |-> TRUE, value |-> 0]
      [] name = "1"    -> [letters |-> <<"1">>, numeric |-> TRUE, value |-> 100]
      [] name = " .5 " -> [letters |-> <<" ", ".", "5", " ">>, numeric |-> TRUE,
                           value |-> 50]
      [] name = "0.25" -> [letters |-> <<"0", ".", "2", "5">>, numeric |-> TRUE,
                           value |-> 25]
      [] name = "0.75" -> [letters |-> <<"0", ".", "7", "5">>, numeric |-> TRUE,
                           value |-> 75]
      [] name = "1.01" -> [letters |-> <<"1", ".", "0", "1">>, numeric |-> TRUE,
                           value |-> 101]
      [] name = "-0.5" -> [letters |-> <<"-", "0", ".", "5">>, numeric |-> TRUE,
                           value |-> -50]
      [] name = "x"    -> [letters |-> <<"x">>, numeric |-> FALSE, value |-> 0]
      [] name = ""     -> [letters |-> <<>>, numeric |-> FALSE, value |-> 0]

\* The fields joined with commas: the string the user typed.
RECURSIVE JoinFields(_)
JoinFields(fs_) ==
    IF Len(fs_) = 0 THEN <<>>
    ELSE IF Len(fs_) = 1 THEN Field(fs_[1]).letters
    ELSE Field(fs_[1]).letters \o <<",">> \o JoinFields(Tail(fs_))

(***************************************************************************)
(* Images                                                                  *)
(***************************************************************************)
White == <<255, 255, 255>>
Black == <<0, 0, 0>>
Red   == <<255, 0, 0>>
Green == <<0, 255, 0>>

Coords(w, h) == (0..(w - 1)) \X (0..(h - 1))

\* Image.convert("RGB") of one pixel of an RGB or RGBA image: alpha is dropped.
ToRGB(pixel) == SubSeq(pixel, 1, 3)

\* An opaque pixel of the given mode.
FromRGB(mode, color) == IF mode = "RGBA" THEN color \o <<255>> ELSE color

\* An image format name is a sequence of letters; None is the empty sequence
\* (the code tests it with "or", which treats both alike).
NoFormat == <<>>
JPEG == <<"J", "P", "E", "G">>
JPG  == <<"J", "P", "G">>
PNG  == <<"P", "N", "G">>
jpg  == <<"j", "p", "g">>

\* No encoder parameters.
NoParams == [quality |-> -1, subsampling |-> -1, optimize |-> FALSE]

\* The content of a path that names no file.
NoFile ==
    [format |-> NoFormat, mode |-> "none", width |-> 0, height |-> 0,
     px |-> [c \in {} |-> Black], params |-> NoParams, passed |-> {}]

\* Image.convert("RGB"): a new RGB image with the same pixels; the copy
\* carries no format.
convert_RGB(img) ==
    [img EXCEPT !.format = NoFormat, !.mode = "RGB",
                !.px = [c \in DOMAIN img.px |-> ToRGB(img.px[c])]]

\* The pixels ImageDraw.rectangle(box, fill) paints: both corner points are
\* inside the rectangle, and what falls outside the image is clipped.
RectanglePixels(w, h, b) ==
    {c \in Coords(w, h) : b[1] <= c[1] /\ c[1] <= b[3] /\ b[2] <= c[2] /\ c[2] <= b[4]}

draw_rectangle(img, b, fill) ==
    [img EXCEPT !.px = [c \in DOMAIN img.px |->
        IF c \in RectanglePixels(img.width, img.height, b)
        THEN FromRGB(img.mode, fill) ELSE img.px[c]]]

(***************************************************************************)
(* compute_fill_color                                                      *)
(***************************************************************************)
MarginDivisor == 200

Margin(w, h) == Max(1, Min(w, h) \div MarginDivisor)

\* The boxes handed to image.crop, in the order the code appends them; the
\* left and right strips here span the whole height of the ring.
StripsFullHeight(w, h, b) ==
    LET margin   == Margin(w, h)
        s_left   == Max(0, b[1] - margin)
        s_top    == Max(0, b[2] - margin)
        s_right  == Min(w, b[3] + margin)
        s_bottom == Min(h, b[4] + margin)
    IN  (IF s_top < b[2] THEN << <<s_left, s_top, s_right, b[2]>> >> ELSE <<>>)
        \o (IF b[4] < s_bottom THEN << <<s_left, b[4], s_right, s_bottom>> >> ELSE <<>>)
        \o (IF s_left < b[1] THEN << <<s_left, s_top, b[1], s_bottom>> >> ELSE <<>>)
        \o (IF b[3] < s_right THEN << <<b[3], s_top, s_right, s_bottom>> >> ELSE <<>>)

\* The boxes handed to image.crop, in the order the code appends them.
Strips(w, h, b) ==
    LET margin   == Margin(w, h)
        s_left   == Max(0, b[1] - margin)
        s_top    == Max(0, b[2] - margin)
        s_right  == Min(w, b[3] + margin)
        s_bottom == Min(h, b[4] + margin)
    IN  (IF s_top < b[2] THEN << <<s_left, s_top, s_right, b[2]>> >> ELSE <<>>)
        \o (IF b[4] < s_bottom THEN << <<s_left, b[4], s_right, s_bottom>> >> ELSE <<>>)
        \o (IF s_left < b[1] THEN << <<s_left, b[2], b[1], b[4]>> >> ELSE <<>>)
        \o (IF b[3] < s_right THEN << <<b[3], b[2], s_right, b[4]>> >> ELSE <<>>)

\* The pixels of image.crop(cb) in the order getdata() lists them (row by
\* row), as coordinates of the source image; none when the region is empty.
RegionCoords(cb) ==
    LET rw == cb[3] - cb[1]
        rh == cb[4] - cb[2]
    IN  IF rw <= 0 \/ rh <= 0 THEN <<>>
        ELSE [i \in 1..(rw * rh) |->
                 <<cb[1] + ((i - 1) % rw), cb[2] + ((i - 1) \div rw)>>]

\* What the four crops collect, strip by strip.
SampledCoords(w, h, b) ==
    LET strips == Strips(w, h, b)
    IN  [k \in 1..Len(strips) |-> RegionCoords(strips[k])]

RECURSIVE Flatten(_)
Flatten(ss) == IF ss = <<>> THEN <<>> ELSE Head(ss) \o Flatten(Tail(ss))

\* A pixel of a cropped region: crop pads what lies outside the image with 0.
PixelAt(img, c) == IF c \in DOMAIN img.px THEN ToRGB(img.px[c]) ELSE Black

\* sorted(): insertion of each value into the sorted rest.
RECURSIVE Sorted(_)
Sorted(vs) ==
    IF vs = <<>> THEN <<>>
    ELSE LET rest  == Sorted(Tail(vs))
             v     == Head(vs)
             below == {i \in 1..Len(rest) : rest[i] < v}
             k     == Cardinality(below)
         IN  SubSeq(rest, 1, k) \o <<v>> \o SubSeq(rest, k + 1, Len(rest))

\* The per-channel median with the lower middle element for an even count.
MedianColorLower(pixels) ==
    LET rs  == Sorted([i \in 1..Len(pixels) |-> pixels[i][1]])
        gs  == Sorted([i \in 1..Len(pixels) |-> pixels[i][2]])
        bs  == Sorted([i \in 1..Len(pixels) |-> pixels[i][3]])
        mid == (Len(pixels) - 1) \div 2
    IN  <<rs[mid + 1], gs[mid + 1], bs[mid + 1]>>

\* Lines 99-104: rs[mid] of the code is rs[mid + 1] here (sequences start at 1).
MedianColor(pixels) ==
    LET rs  == Sorted([i \in 1..Len(pixels) |-> pixels[i][1]])
        gs  == Sorted([i \in 1..Len(pixels) |-> pixels[i][2]])
        bs  == Sorted([i \in 1..Len(pixels) |-> pixels[i][3]])
        mid == Len(pixels) \div 2
    IN  <<rs[mid + 1], gs[mid + 1], bs[mid + 1]>>

\* The outcome of the try block when an exception leaves it.
Raised == <<-1>>

Faults == {"none", "getdata"}

\* The body of the try block.  flt names a library call that raises when it
\* is reached (getdata, on a region that is not empty).
SampleAndMedian(img, b, flt) ==
    LET coords == SampledCoords(img.width, img.height, b)
        flat   == Flatten(coords)
        pixels == [i \in 1..Len(flat) |-> PixelAt(img, flat[i])]
    IN  IF flt = "getdata" /\ Len(flat) > 0 THEN Raised
        ELSE IF Len(pixels) = 0 THEN White
        ELSE MedianColor(pixels)

\* The function without its except clause.
compute_fill_color_uncaught(img, b, flt) == SampleAndMedian(img, b, flt)

compute_fill_color(img, b, flt) ==
    LET result == SampleAndMedian(img, b, flt)
    IN  IF result = Raised THEN White ELSE result

(***************************************************************************)
(* cover_top_right_tag: the format and the encoder parameters of the save  *)
(***************************************************************************)
LowerLetters == <<"e", "g", "j", "n", "p">>
UpperLetters == <<"E", "G", "J", "N", "P">>

\* str.upper() of one letter.
UpperLetter(c) ==
    IF \E i \in 1..Len(LowerLetters) : LowerLetters[i] = c
    THEN UpperLetters[CHOOSE i \in 1..Len(LowerLetters) : LowerLetters[i] = c]
    ELSE c

Upper(str) == [i \in 1..Len(str) |-> UpperLetter(str[i])]

\* The format without the call of upper().
SaveFormatAsDetected(format) == IF format = NoFormat THEN JPEG ELSE format

\* fmt = (image.format or "JPEG").upper()
SaveFormat(format) == Upper(IF format = NoFormat THEN JPEG ELSE format)

JpegSubsampling == 2

\* save_kwargs: the names passed and their values.
SaveParams(fmt, quality) ==
    IF fmt \in {JPEG, JPG}
    THEN [passed |-> {"quality", "subsampling", "optimize"},
          params |-> [quality |-> quality, subsampling |-> JpegSubsampling,
                      optimize |-> TRUE]]
    ELSE [passed |-> {}, params |-> NoParams]

\* The file image_rgb.save(output_path, format=fmt, **save_kwargs) writes.
\* (The loss of a JPEG encoding is not modelled: the file holds the buffer.)
Encoded(img, fmt, kwargs) ==
    [format |-> fmt, mode |-> img.mode, width |-> img.width, height |-> img.height,
     px |-> img.px, params |-> kwargs.params, passed |-> kwargs.passed]

(***************************************************************************)
(* The command line and the files of a run                                 *)
(***************************************************************************)
DefaultQuality == 95
OtherQuality   == 50

\* default=NormalizedRect(0.74, 0.02, 0.99, 0.12)
DefaultRect == NormalizedRect(74, 2, 99, 12)

InputPath == "a.jpg"
Paths     == {"a.jpg", "b.jpg", "b.png"}

\* The --rect strings of the runs, as fields; <<>> stands for no --rect.
RectChoices ==
    { <<>>,
      <<"0", "0", "1", "1">>,
      <<" .5 ", "0", "1", " .5 ">>,
      <<"0.25", "0.25", "0.75", "0.75">>,
      <<"0", "0.25", " .5 ", "1">>,
      <<"0.75", "0.25", "0.25", "0.75">>,
      <<" .5 ", " .5 ", " .5 ", " .5 ">>,
      <<"0.25", " .5 ", "1", "0.75">>,
      <<"0.25", "0", "0.75", "0.25">>,
      <<"0", "0", "1">>,
      <<"0", "x", "1", "1">>,
      <<"0", "0", "1.01", "1">>,
      <<"0", "-0.5", "1", "1">> }

\* The rectangle a run with these fields is meant to cover.
TargetRect(fs_) ==
    LET parsed == parse_normalized_rect(JoinFields(fs_))
    IN  IF fs_ = <<>> \/ parsed.error # "none" THEN DefaultRect ELSE parsed.rect

\* The formats detected in the inputs: two of the library's own, a plug-in's
\* lower-case name, and none.
Formats == {JPEG, PNG, jpg, NoFormat}

\* A PNG input has an alpha channel, the others are RGB.
ModeOf(format) == IF format = PNG THEN "RGBA" ELSE "RGB"

Palette == {White, Black, Red}

\* An image of one background colour with a rectangle of another colour
\* drawn on the pixel box b.
TagImage(format, w, h, bg, tag, b) ==
    [format |-> format, mode |-> ModeOf(format), width |-> w, height |-> h,
     px |-> [c \in Coords(w, h) |->
                FromRGB(ModeOf(format),
                        IF c \in RectanglePixels(w, h, b) THEN tag ELSE bg)],
     params |-> NoParams, passed |-> {}]

\* The input images of the runs: every size, format and pair of different
\* colours, with the rectangle drawn where the run will cover it.
TagImages(target) ==
    { TagImage(f, w, h, bt[1], bt[2], to_pixels(target, w, h)) :
        f \in Formats, w \in 1..MaxSide, h \in 1..MaxSide,
        bt \in {p \in Palette \X Palette : p[1] # p[2]} }

NoBox == <<0, 0, 0, 0>>
NoSave == [path |-> "", format |-> NoFormat, passed |-> {}, params |-> NoParams]

InitRun ==
    /\ pc = "main"
    /\ fields \in RectChoices
    /\ \E q \in {DefaultQuality, OtherQuality}, out \in Paths :
          argv = [has_rect |-> fields # <<>>, rect |-> JoinFields(fields),
                  quality |-> q, input |-> InputPath, output |-> out]
    /\ \E file \in {NoFile} \cup TagImages(TargetRect(fields)) :
          /\ fs = [p \in Paths |-> IF p = InputPath THEN file ELSE NoFile]
    /\ fs0 = fs
    /\ status = -1
    /\ opened = {}
    /\ written = <<>>
    /\ parse_error = ""
    /\ rect = NoRect
    /\ image = NoFile
    /\ image_rgb = NoFile
    /\ width = 0
    /\ height = 0
    /\ box = NoBox
    /\ fault = "none"
    /\ fill_color = <<>>
    /\ sampled = <<>>
    /\ save_call = NoSave

(***************************************************************************)
(* The run of main(), one action per statement of main and of              *)
(* cover_top_right_tag.                                                    *)
(***************************************************************************)
\* Exit statuses: argparse's error() exits with 2, an uncaught exception
\* ends the interpreter with 1, a return from main with 0.
ExitUsage    == 2
ExitUncaught == 1
ExitOk       == 0

\* parse_args that keeps the default rectangle when --rect is malformed.
ParseArgsLenient ==
    /\ pc = "main"
    /\ LET parsed == parse_normalized_rect(argv.rect)
       IN  /\ rect' = IF argv.has_rect /\ parsed.error = "none"
                      THEN parsed.rect ELSE DefaultRect
           /\ parse_error' = IF argv.has_rect THEN parsed.error ELSE "none"
    /\ pc' = "open"
    /\ UNCHANGED <<argv, fields, fs, fs0, status, opened, written, image, image_rgb,
                   width, height, box, fault, fill_color, sampled, save_call>>

\* args = build_argparser().parse_args(): argparse applies type= to the
\* --rect string, and on ArgumentTypeError reports it and exits; without
\* --rect the default object is taken as it is.
ParseArgs ==
    /\ pc = "main"
    /\ LET parsed == parse_normalized_rect(argv.rect)
       IN  /\ parse_error' = IF argv.has_rect THEN parsed.error ELSE "none"
           /\ IF argv.has_rect /\ parsed.error # "none"
              THEN /\ status' = ExitUsage
                   /\ pc' = "exit"
                   /\ rect' = rect
              ELSE /\ rect' = IF argv.has_rect THEN parsed.rect ELSE DefaultRect
                   /\ pc' = "open"
                   /\ status' = status
    /\ UNCHANGED <<argv, fields, fs, fs0, opened, written, image, image_rgb,
                   width, height, box, fault, fill_color, sampled, save_call>>

\* image = Image.open(input_path); a missing file raises, and nothing
\* catches it.
OpenImage ==
    /\ pc = "open"
    /\ opened' = opened \cup {argv.input}
    /\ IF fs[argv.input] = NoFile
       THEN /\ status' = ExitUncaught
            /\ pc' = "exit"
            /\ image' = image
       ELSE /\ image' = fs[argv.input]
            /\ pc' = "convert"
            /\ status' = status
    /\ UNCHANGED <<argv, fields, fs, fs0, written, parse_error, rect, image_rgb,
                   width, height, box, fault, fill_color, sampled, save_call>>

\* image_rgb = image.convert("RGB"); width, height = image_rgb.size
ConvertImage ==
    /\ pc = "convert"
    /\ image_rgb' = convert_RGB(image)
    /\ width' = image.width
    /\ height' = image.height
    /\ pc' = "to_pixels"
    /\ UNCHANGED <<argv, fields, fs, fs0, status, opened, written, parse_error, rect,
                   image, box, fault, fill_color, sampled, save_call>>

\* box = rect.to_pixels(width, height)
ResolveBox ==
    /\ pc = "to_pixels"
    /\ box' = to_pixels(rect, width, height)
    /\ pc' = "fill"
    /\ UNCHANGED <<argv, fields, fs, fs0, status, opened, written, parse_error, rect,
                   image, image_rgb, width, height, fault, fill_color, sampled, save_call>>

\* fill_color = compute_fill_color(image_rgb, box)
ComputeFill ==
    /\ pc = "fill"
    /\ fill_color' = compute_fill_color(image_rgb, box, fault)
    /\ sampled' = SampledCoords(width, height, box)
    /\ pc' = "draw"
    /\ UNCHANGED <<argv, fields, fs, fs0, status, opened, written, parse_error, rect,
                   image, image_rgb, width, height, box, fault, save_call>>

\* draw = ImageDraw.Draw(image_rgb); draw.rectangle(box, fill=fill_color)
DrawRectangle ==
    /\ pc = "draw"
    /\ image_rgb' = draw_rectangle(image_rgb, box, fill_color)
    /\ pc' = "save"
    /\ UNCHANGED <<argv, fields, fs, fs0, status, opened, written, parse_error, rect,
                   image, width, height, box, fault, fill_color, sampled, save_call>>

\* The save with the two paths taken for one another.
SaveImageToInput ==
    /\ pc = "save"
    /\ LET fmt    == SaveFormat(image.format)
           kwargs == SaveParams(fmt, argv.quality)
       IN  /\ save_call' = [path |-> argv.input, format |-> fmt,
                            passed |-> kwargs.passed, params |-> kwargs.params]
           /\ fs' = [fs EXCEPT ![argv.input] = Encoded(image_rgb, fmt, kwargs)]
    /\ written' = Append(written, argv.input)
    /\ status' = ExitOk
    /\ pc' = "exit"
    /\ UNCHANGED <<argv, fields, fs0, opened, parse_error, rect, image, image_rgb,
                   width, height, box, fault, fill_color, sampled>>

\* Lines 126-131, then the return from cover_top_right_tag and from main.
SaveImage ==
    /\ pc = "save"
    /\ LET fmt    == SaveFormat(image.format)
           kwargs == SaveParams(fmt, argv.quality)
       IN  /\ save_call' = [path |-> argv.output, format |-> fmt,
                            passed |-> kwargs.passed, params |-> kwargs.params]
           /\ fs' = [fs EXCEPT ![argv.output] = Encoded(image_rgb, fmt, kwargs)]
    /\ written' = Append(written, argv.output)
    /\ status' = ExitOk
    /\ pc' = "exit"
    /\ UNCHANGED <<argv, fields, fs0, opened, parse_error, rect, image, image_rgb,
                   width, height, box, fault, fill_color, sampled>>

Next ==
    \/ ParseArgs
    \/ OpenImage
    \/ ConvertImage
    \/ ResolveBox
    \/ ComputeFill
    \/ DrawRectangle
    \/ SaveImage

Spec == InitRun /\ [][Next]_vars

(***************************************************************************)
(* The functions on their own: each specification draws the arguments of   *)
(* one function from bounded sets and applies it.                          *)
(***************************************************************************)
\* What a variable holds that the specification at hand does not use.
Idle ==
    /\ fs = [p \in Paths |-> NoFile]
    /\ fs0 = fs
    /\ status = -1
    /\ opened = {}
    /\ written = <<>>
    /\ image = NoFile
    /\ save_call = NoSave

\* The fields of the --rect strings given to parse_normalized_rect.
ParseFieldNames == {"0", "1", " .5 ", "1.01", "-0.5", "x", ""}

RECURSIVE Tuples(_, _)
Tuples(S, n) ==
    IF n = 0 THEN {<<>>} ELSE {Append(t, x) : t \in Tuples(S, n - 1), x \in S}

InitParse ==
    /\ Idle
    /\ pc = "main"
    /\ \E n \in 1..MaxFields : fields \in Tuples(ParseFieldNames, n)
    /\ argv = [has_rect |-> TRUE, rect |-> JoinFields(fields),
               quality |-> DefaultQuality, input |-> InputPath, output |-> "b.jpg"]
    /\ parse_error = ""
    /\ rect = NoRect
    /\ image_rgb = NoFile
    /\ width = 0
    /\ height = 0
    /\ box = NoBox
    /\ fault = "none"
    /\ fill_color = <<>>
    /\ sampled = <<>>

\* parse_normalized_rect applied to every string (by argparse, as type=).
SpecParse == InitParse /\ [][ParseArgs]_vars

\* The values of the rectangles given to to_pixels, in hundredths.
RectValues == {0, 2, 12, 25, 50, 74, 99, 100}

\* The image sides: every small one, and one with a margin above 1.
Sides == (1..MaxSide) \cup {BigSide}

InitRect ==
    /\ Idle
    /\ pc = "to_pixels"
    /\ fields = <<>>
    /\ argv = [has_rect |-> FALSE, rect |-> <<>>,
               quality |-> DefaultQuality, input |-> InputPath, output |-> "b.jpg"]
    /\ parse_error = "none"
    /\ \E l \in RectValues, t \in RectValues, r \in RectValues, b \in RectValues :
          rect = NormalizedRect(l, t, r, b)
    /\ image_rgb = NoFile
    /\ width \in Sides
    /\ height \in Sides
    /\ box = NoBox
    /\ fault = "none"
    /\ fill_color = <<>>
    /\ sampled = <<>>

\* to_pixels applied to every rectangle and size.
SpecRect == InitRect /\ [][ResolveBox]_vars

\* The box coordinates tried along a side of n pixels: those near its ends.
NearEnds(n) == {k \in 0..n : k <= 2 \/ k >= n - 2}

\* The pixel boxes as to_pixels returns them: inside the image, in order.
Boxes(w, h, xs, ys) ==
    {<<l, t, r, b>> : l \in xs, t \in ys, r \in xs, b \in ys} \cap
    {bx \in (0..w) \X (0..h) \X (0..w) \X (0..h) : bx[1] <= bx[3] /\ bx[2] <= bx[4]}

InitRing ==
    /\ Idle
    /\ pc = "sample"
    /\ fields = <<>>
    /\ argv = [has_rect |-> FALSE, rect |-> <<>>,
               quality |-> DefaultQuality, input |-> InputPath, output |-> "b.jpg"]
    /\ parse_error = "none"
    /\ rect = NoRect
    /\ image_rgb = NoFile
    /\ width \in Sides
    /\ height \in Sides
    /\ box \in Boxes(width, height, NearEnds(width), NearEnds(height))
    /\ fault = "none"
    /\ fill_color = <<>>
    /\ sampled = <<>>

\* Lines 66-94 of compute_fill_color: the pixels the four crops collect.
CollectSamples ==
    /\ pc = "sample"
    /\ sampled' = SampledCoords(width, height, box)
    /\ pc' = "sampled"
    /\ UNCHANGED <<argv, fields, fs, fs0, status, opened, written, parse_error, rect,
                   image, image_rgb, width, height, box, fault, fill_color,
                   save_call>>

\* The sampling geometry for every size and box.
SpecRing == InitRing /\ [][CollectSamples]_vars

FillPalette == {Red, Green}

\* The RGB buffers given to compute_fill_color: one colour, with up to two
\* pixels of the palette set on it.
SpeckleImages(w, h) ==
    { [format |-> NoFormat, mode |-> "RGB", width |-> w, height |-> h,
       px |-> [c \in Coords(w, h) |->
                  IF c = pq[1] THEN cs[2] ELSE IF c = pq[2] THEN cs[3] ELSE cs[1]],
       params |-> NoParams, passed |-> {}] :
        pq \in Coords(w, h) \X Coords(w, h),
        cs \in FillPalette \X FillPalette \X FillPalette }

InitFill ==
    /\ Idle
    /\ pc = "fill"
    /\ fields = <<>>
    /\ argv = [has_rect |-> FALSE, rect |-> <<>>,
               quality |-> DefaultQuality, input |-> InputPath, output |-> "b.jpg"]
    /\ parse_error = "none"
    /\ rect = NoRect
    /\ width \in 1..MaxSide
    /\ height \in 1..MaxSide
    /\ image_rgb \in SpeckleImages(width, height)
    /\ box \in Boxes(width, height, 0..width, 0..height)
    /\ fault \in Faults
    /\ fill_color = <<>>
    /\ sampled = <<>>

\* compute_fill_color applied to every buffer, box and fault.
SpecFill == InitFill /\ [][ComputeFill]_vars

(***************************************************************************)
(* Properties                                                              *)
(***************************************************************************)
\* What the fields say, read without the parser: whether the string is
\* malformed, and the rectangle it denotes otherwise.
FieldsMalformed(fs_) ==
    \/ Len(fs_) # 4
    \/ \E i \in 1..Len(fs_) : ~Field(fs_[i]).numeric
    \/ \E i \in 1..Len(fs_) : Field(fs_[i]).value < 0 \/ Field(fs_[i]).value > Scale

FieldsRect(fs_) ==
    NormalizedRect(Field(fs_[1]).value, Field(fs_[2]).value,
                   Field(fs_[3]).value, Field(fs_[4]).value)

\* C1 (SpecRect): for every rectangle with values in [0,1], in any order,
\* and every image size, to_pixels returns a box with
\* 0 <= left <= right <= width and 0 <= top <= bottom <= height.
C1_BoxWellFormed ==
    pc = "fill" =>
        /\ 0 <= box[1] /\ box[1] <= box[3] /\ box[3] <= width
        /\ 0 <= box[2] /\ box[2] <= box[4] /\ box[4] <= height

\* A rectangle given with left > right and top > bottom was resolved to a
\* box of positive area.
C1_Witness ==
    /\ pc = "fill"
    /\ rect.left > rect.right /\ rect.top > rect.bottom
    /\ box[1] < box[3] /\ box[2] < box[4]

\* C2 (SpecParse): parse_normalized_rect raises for every string with fewer
\* or more than four fields, a field that is no number, or a value outside
\* [0,1]; for every other string it returns the four values in the order
\* left, top, right, bottom, whatever their order.
C2_ParseValidates ==
    pc # "main" =>
        /\ FieldsMalformed(fields) <=> parse_error # "none"
        /\ ~FieldsMalformed(fields) => rect = FieldsRect(fields)
        /\ FieldsMalformed(fields) => rect = NoRect

\* "1,1,0,0" was accepted as left = 1, top = 1, right = 0, bottom = 0.
C2_Witness ==
    /\ pc # "main"
    /\ fields = <<"1", "1", "0", "0">>
    /\ parse_error = "none"
    /\ rect = NormalizedRect(Scale, Scale, 0, 0)

\* The pixels of the buffer that the run covers.
Target == RectanglePixels(width, height, box)

\* C3 (Spec): the input is one background colour except for a rectangle of
\* another colour drawn on the target; after the paint every target pixel
\* has the background colour, and every other pixel is as in the input.
C3_TagErased ==
    pc = "save" =>
        /\ \A c \in Target : \A d \in Coords(width, height) \ Target :
              image_rgb.px[c] = ToRGB(image.px[d])
        /\ \A d \in Coords(width, height) \ Target :
              image_rgb.px[d] = ToRGB(image.px[d])

\* C4 (Spec), as claimed: a successful run writes the output path only and
\* leaves the content of the input file as it was, also when both paths
\* name the same file.
C4_InputUnchanged ==
    (pc = "exit" /\ status = ExitOk) =>
        /\ written = <<argv.output>>
        /\ fs[argv.input] = fs0[argv.input]

\* C4 (Spec), amended: a successful run writes the output path only; every
\* other file, the input file among them when it is another file, is left
\* as it was, and the output path holds the saved image.
C4_OnlyOutputWritten ==
    (pc = "exit" /\ status = ExitOk) =>
        /\ written = <<argv.output>>
        /\ \A p \in Paths \ {argv.output} : fs[p] = fs0[p]
        /\ fs[argv.output].px = image_rgb.px
        /\ argv.output # argv.input => fs[argv.input] = fs0[argv.input]

\* A successful run to another path: the output exists, the input is intact.
C4_Witness ==
    /\ pc = "exit" /\ status = ExitOk
    /\ argv.output # argv.input
    /\ fs0[argv.output] = NoFile /\ fs[argv.output] # NoFile
    /\ fs[argv.input] = fs0[argv.input]

\* C5 (SpecFill): compute_fill_color never raises; it returns white when the
\* box touches the image border on every side, and when a failure occurs
\* while sampling.
C5_NeverRaises ==
    pc = "draw" =>
        /\ fill_color \in (0..255) \X (0..255) \X (0..255)
        /\ (box = <<0, 0, width, height>>) => fill_color = White
        /\ Flatten(sampled) = <<>> => fill_color = White
        /\ (fault # "none" /\ Flatten(sampled) # <<>>) => fill_color = White

\* The box covers an image that is not white, and white came back.
C5_Witness ==
    /\ pc = "draw"
    /\ box = <<0, 0, width, height>>
    /\ \A c \in Coords(width, height) : image_rgb.px[c] # White
    /\ fill_color = White

\* A failure while sampling pixels that are not white, and white came back.
C5_FailureWitness ==
    /\ pc = "draw"
    /\ fault # "none" /\ Flatten(sampled) # <<>>
    /\ \A c \in Coords(width, height) : image_rgb.px[c] # White
    /\ fill_color = White

\* The format names of the inputs, upper-cased by hand.
UpperCased(format) ==
    CASE format = JPEG -> JPEG
      [] format = PNG  -> PNG
      [] format = jpg  -> JPG
      [] OTHER         -> format

\* C6 (Spec): the save uses the upper-cased format detected in the input,
\* JPEG when none was detected, whatever the extension of the output path;
\* quality, subsampling and optimize are passed exactly for JPEG and JPG.
C6_SaveFormat ==
    (pc = "exit" /\ status = ExitOk) =>
        LET detected == fs0[argv.input].format
            expected == IF detected = NoFormat THEN JPEG ELSE UpperCased(detected)
        IN  /\ save_call.format = expected
            /\ fs[argv.output].format = expected
            /\ expected \in {JPEG, JPG} =>
                  /\ save_call.passed = {"quality", "subsampling", "optimize"}
                  /\ save_call.params.quality = argv.quality
                  /\ save_call.params.subsampling = 2
                  /\ save_call.params.optimize
            /\ expected \notin {JPEG, JPG} => save_call.passed = {}

\* An input detected as "jpg" saved to a .png path: saved as JPG, with the
\* encoder parameters.
C6_Witness ==
    /\ pc = "exit" /\ status = ExitOk
    /\ fs0[argv.input].format = jpg
    /\ argv.output = "b.png"
    /\ argv.quality = OtherQuality
    /\ save_call.format = JPG
    /\ save_call.params.quality = OtherQuality

\* A PNG input saved to a .jpg path: saved as PNG, without parameters.
C6_PngWitness ==
    /\ pc = "exit" /\ status = ExitOk
    /\ fs0[argv.input].format = PNG
    /\ argv.output = "b.jpg"
    /\ save_call.format = PNG
    /\ save_call.passed = {}

\* C7 (Spec): with a malformed --rect the process exits with a non-zero
\* status before any image is touched: the input is never opened and no
\* file is written.
C7_MalformedRectTouchesNothing ==
    (argv.has_rect /\ FieldsMalformed(fields)) =>
        /\ opened = {}
        /\ written = <<>>
        /\ fs = fs0
        /\ pc \in {"main", "exit"}
        /\ pc = "exit" => status # ExitOk /\ parse_error \notin {"", "none"}

\* A run with a malformed --rect has exited.
C7_Witness ==
    /\ argv.has_rect /\ FieldsMalformed(fields)
    /\ fs0[argv.input] # NoFile
    /\ pc = "exit"
    /\ status = ExitUsage

\* The sampled pixels, in the order they were collected.
Samples == Flatten(sampled)

\* Channel k of the sampled pixels.
Channel(k) == [i \in 1..Len(Samples) |-> PixelAt(image_rgb, Samples[i])[k]]

\* C8 (SpecFill): with n >= 1 sampled pixels, each channel of the result is
\* the element at index floor(n/2) of that channel's values in ascending
\* order: at most floor(n/2) values are below it and more than floor(n/2)
\* are not above it.  It occurs in that channel of a sample and lies in
\* [0,255].
C8_PerChannelMedian ==
    (pc = "draw" /\ fault = "none" /\ Len(Samples) >= 1) =>
        \A k \in 1..3 :
            LET n  == Len(Samples)
                vs == Channel(k)
                m  == fill_color[k]
            IN  /\ Cardinality({i \in 1..n : vs[i] < m}) <= n \div 2
                /\ Cardinality({i \in 1..n : vs[i] <= m}) > n \div 2
                /\ \E i \in 1..n : vs[i] = m
                /\ m \in 0..255

\* The result is a colour that no sampled pixel has.
C8_Witness ==
    /\ pc = "draw" /\ fault = "none" /\ Len(Samples) >= 1
    /\ \A i \in 1..Len(Samples) : PixelAt(image_rgb, Samples[i]) # fill_color

\* C9 (SpecRing): every sampled pixel lies inside the image, inside the box
\* grown by margin = max(1, floor(min(width, height) / 200)) and clamped to
\* the image, and outside the half-open box; no pixel is sampled twice.
C9_RingGeometry ==
    pc = "sampled" =>
        LET margin == IF (IF width <= height THEN width ELSE height) \div 200 >= 1
                      THEN (IF width <= height THEN width ELSE height) \div 200
                      ELSE 1
        IN  /\ \A i \in 1..Len(Samples) :
                  LET x == Samples[i][1]
                      y == Samples[i][2]
                  IN  /\ 0 <= x /\ x < width /\ 0 <= y /\ y < height
                      /\ box[1] - margin <= x /\ x < box[3] + margin
                      /\ box[2] - margin <= y /\ y < box[4] + margin
                      /\ ~(/\ box[1] <= x /\ x < box[3]
                           /\ box[2] <= y /\ y < box[4])
            /\ Cardinality({Samples[i] : i \in 1..Len(Samples)}) = Len(Samples)
            /\ Len(sampled) <= 4

\* Four strips were sampled around a box with a margin of two pixels.
C9_Witness ==
    /\ pc = "sampled"
    /\ width >= 2 * 200 /\ height >= 2 * 200
    /\ Len(sampled) = 4
    /\ \A k \in 1..4 : Len(sampled[k]) > 0
    /\ \E i \in 1..Len(Samples) : Samples[i][1] = box[1] - 2

\* C10 (Spec): the pixels the run paints and the pixels it sampled as
\* background are disjoint.
C10_SampledNotPainted ==
    pc = "save" =>
        Target \cap {Samples[i] : i \in 1..Len(Samples)} = {}

=============================================================================
